---------------------------- MODULE Spec2Model ----------------------------
(***************************************************************************)
(* The navigation state machine of mullvad-tui (src/src/app.rs): the App   *)
(* struct, the key handlers of Normal and Search mode, and the calls to    *)
(* the `mullvad` command line they make.  Strings are sequences of         *)
(* one-character strings, so that contains, trim, to_lowercase and lines   *)
(* are computed and not assumed.                                           *)
(***************************************************************************)
EXTENDS Naturals, Sequences, FiniteSets, TLC

(***************************************************************************)
(* Bounds of the model.                                                    *)
(***************************************************************************)
\* Longest search query that is typed (String::push has no limit).
MaxQuery == 2
\* How far the Down and Up keys take an index that an overflow has let out
\* of its list: up to MaxStray past the longest list, down to MaxStray
\* below usize::MAX.  There the key is no longer pressed.
MaxStray == 1

\* usize::MAX, with the narrowest pointer width Rust has (TLC's integers
\* end below 2^31); every list of the model is far shorter.
UsizeBits == 16
UsizeMax == 2 ^ UsizeBits - 1

(***************************************************************************)
(* Characters and the std string functions the code uses.                  *)
(***************************************************************************)
Tab == "\t"
NL == "\n"

Upper == <<"A","B","C","D","E","F","G","H","I","J","K","L","M",
           "N","O","P","Q","R","S","T","U","V","W","X","Y","Z">>
Lower == <<"a","b","c","d","e","f","g","h","i","j","k","l","m",
           "n","o","p","q","r","s","t","u","v","w","x","y","z">>

MinOf(S) == CHOOSE x \in S : \A y \in S : x <= y
MaxOf(S) == CHOOSE x \in S : \A y \in S : y <= x

MapSeq(F(_), s) == [i \in 1..Len(s) |-> F(s[i])]

\* char::to_lowercase on the ASCII letters.
to_lowercase_char(c) ==
    IF \E i \in 1..26 : Upper[i] = c
    THEN Lower[CHOOSE i \in 1..26 : Upper[i] = c]
    ELSE c

\* str::to_lowercase
to_lowercase(s) == MapSeq(to_lowercase_char, s)

\* str::contains(&str): the needle occurs as a contiguous substring.
contains(hay, needle) ==
    \E i \in 0..Len(hay) :
        /\ i + Len(needle) <= Len(hay)
        /\ SubSeq(hay, i + 1, i + Len(needle)) = needle

\* str::contains(char)
contains_char(s, c) == \E i \in 1..Len(s) : s[i] = c

\* str::starts_with(char)
starts_with(s, c) == Len(s) > 0 /\ s[1] = c

is_whitespace(c) == c \in {" ", Tab, NL}

\* str::trim: leading and trailing whitespace removed.
trim(s) ==
    LET keep == {i \in 1..Len(s) : ~is_whitespace(s[i])}
    IN  IF keep = {} THEN <<>> ELSE SubSeq(s, MinOf(keep), MaxOf(keep))

\* str::lines: split at "\n"; a final line without "\n" is a line, a final
\* "\n" opens no empty line.  ends: where each line stops.
lines(text) ==
    LET n == Len(text)
        ends == {i \in 1..n : text[i] = NL} \cup
                (IF n > 0 /\ text[n] # NL THEN {n + 1} ELSE {})
        before(e) == {j \in ends : j < e}
        start(e) == IF before(e) = {} THEN 1 ELSE MaxOf(before(e)) + 1
        kth(k) == CHOOSE e \in ends : Cardinality(before(e)) = k - 1
    IN  [k \in 1..Cardinality(ends) |-> SubSeq(text, start(kth(k)), kth(k) - 1)]

\* Iterator::skip_while, skip(1), take_while on a sequence.
skip_while(P(_), s) ==
    LET stop == {i \in 1..Len(s) : ~P(s[i])}
    IN  IF stop = {} THEN <<>> ELSE SubSeq(s, MinOf(stop), Len(s))

skip1(s) == IF s = <<>> THEN <<>> ELSE Tail(s)

take_while(P(_), s) ==
    LET stop == {i \in 1..Len(s) : ~P(s[i])}
    IN  IF stop = {} THEN s ELSE SubSeq(s, 1, MinOf(stop) - 1)

(***************************************************************************)
(* The relay listings `mullvad relay list` prints in the model.            *)
(***************************************************************************)
Sweden    == <<"S","w","e","d","e","n"," ","(","s","e",")">>
Germany   == <<"G","e","r","m","a","n","y"," ","(","d","e",")">>
France    == <<"F","r","a","n","c","e"," ","(","f","r",")">>
Stockholm == <<"S","t","o","c","k","h","o","l","m"," ","(","s","e","-","s","t","o",")">>
Malmo     == <<"M","a","l","m","o"," ","(","s","e","-","m","m","a",")">>
Berlin    == <<"B","e","r","l","i","n"," ","(","d","e","-","b","e","r",")">>
Paris     == <<"P","a","r","i","s"," ","(","f","r","-","p","a","r",")">>

Line(s) == s \o <<NL>>
Indented(s) == <<Tab>> \o s \o <<NL>>

\* The listing of the spec's parsing scenario, with France added.
ListingPlain ==
    Line(Sweden) \o Indented(Stockholm) \o Indented(Malmo) \o
    Line(Germany) \o Indented(Berlin) \o
    Line(France) \o Indented(Paris)

\* A backend that lists no relay.
ListingEmpty == <<>>

RelayListings == {ListingPlain, ListingEmpty}

\* The stdout of `mullvad connect` / `mullvad disconnect`: two lines when
\* the command succeeds, one when it fails.
OutSetting == <<"S","e","t","t","i","n","g"," ","u","p">>
OutDone    == <<"D","o","n","e">>
OutError   == <<"E","r","r","o","r">>
stdout_of(success) ==
    IF success THEN Line(OutSetting) \o Line(OutDone) ELSE Line(OutError)

\* What Command::output gives back: spawn (the executable ran), success
\* (its exit status), utf8 (its stdout is valid UTF-8), stdout.
NotSpawned == [spawn |-> FALSE, success |-> FALSE, utf8 |-> TRUE, stdout |-> <<>>]
CommandResponses ==
    {NotSpawned} \cup
    {[spawn |-> TRUE, success |-> b, utf8 |-> FALSE, stdout |-> <<>>] :
        b \in BOOLEAN} \cup
    {[spawn |-> TRUE, success |-> b, utf8 |-> TRUE, stdout |-> stdout_of(b)] :
        b \in BOOLEAN}
\* `mullvad relay list`: its exit status is not read, its stdout is relay_text.
ListingResponses ==
    {[spawn |-> FALSE, utf8 |-> TRUE], [spawn |-> TRUE, utf8 |-> FALSE],
     [spawn |-> TRUE, utf8 |-> TRUE]}
\* Enter in Cities runs `relay set location` (did it spawn), then `connect`.
ConnectResponses ==
    {<<FALSE, NotSpawned>>} \cup {<<TRUE, r>> : r \in CommandResponses}

\* Characters typed while searching.
TypedChars == {"d", "e", "S", "q"}


(***************************************************************************)
(* The state: the fields of App, then what the model records beside them.  *)
(***************************************************************************)
VARIABLES
    countries,          \* App.countries: Vec<String>
    cities,             \* App.cities: Vec<String>
    connection_output,  \* App.connection_output: Vec<String>
    connected,          \* App.connected: bool
    search_string,      \* App.search_string: String
    view_mode,          \* App.view_mode: View
    input_mode,         \* App.input_mode: InputMode
    state,              \* App.state: ListState, the row it has selected
    awaiting_second_g,  \* App.awaiting_second_g: bool
    country_index,      \* App.country_index: usize
    city_index,         \* App.city_index: usize
    exit,               \* App.exit: bool
    run,                \* App::run: "loop", or how it ended: "ok", "err", "panic"
    relay_text,         \* the stdout of `mullvad relay list`
    overflow_checks,    \* the build: usize overflow panics ("on") or wraps ("off");
                        \* "unset" until the first overflow shows which
    loaded_country,     \* the country set_cities loaded App.cities for
    last                \* the key event handled last, and how it went

fields == <<countries, cities, connection_output, connected, search_string,
            view_mode, input_mode, state, awaiting_second_g, country_index,
            city_index, exit>>
env == <<relay_text, overflow_checks>>
vars == <<fields, run, env, loaded_country, last>>

NoCountry == <<>>
NoArgs == <<>>

\* last: the key, the view and input mode it arrived in, the handler's
\* result, the stdout lines of the connect/disconnect command it ran and the
\* arguments it passed to `relay set location`.
Handled(key, res, out, args) ==
    [key |-> key, view |-> view_mode, mode |-> input_mode,
     res |-> res, out |-> out, args |-> args]

\* How App::run goes on after a handler's result: `?` returns the error.
after(res) ==
    CASE res = "Ok"    -> "loop"
      [] res = "Panic" -> "panic"
      [] OTHER         -> "err"

(***************************************************************************)
(* usize arithmetic.                                                       *)
(***************************************************************************)
\* `len - 1` in a build whose overflow checks are `checks`: at 0 a build
\* with overflow checks panics, one without wraps.
minus_one(n, checks) ==
    IF n > 0 THEN [panic |-> FALSE, val |-> n - 1, overflow |-> FALSE]
    ELSE IF checks = "on" THEN [panic |-> TRUE, val |-> n, overflow |-> TRUE]
    ELSE [panic |-> FALSE, val |-> UsizeMax, overflow |-> TRUE]

\* The builds the run so far can be.
Builds == {"on", "off"}
builds == IF overflow_checks = "unset" THEN Builds ELSE {overflow_checks}

(***************************************************************************)
(* Parsing the relay listing.                                              *)
(***************************************************************************)
is_country_line(line) == contains_char(line, "(") /\ ~starts_with(line, Tab)

is_city_line(line) == contains_char(line, "(") /\ contains_char(line, ")")

\* The filter_map of App::init and App::set_countries.
country_lines(stdout) == MapSeq(trim, SelectSeq(lines(stdout), is_country_line))

\* The iterator chain of App::set_cities.
city_lines(stdout, country) ==
    LET other(line) == ~contains(line, country)
        indented(line) == starts_with(line, Tab)
        block == take_while(indented, skip1(skip_while(other, lines(stdout))))
    IN  MapSeq(trim, SelectSeq(block, is_city_line))

\* The two parses of each listing of the model, computed once.
listed_countries == [text \in RelayListings |-> country_lines(text)]

listed_cities ==
    [text \in RelayListings |->
        [country \in {listed_countries[text][i] : i \in 1..Len(listed_countries[text])}
            |-> city_lines(text, country)]]

\* The longest list a listing of the model gives.
LongestList ==
    MaxOf({Len(listed_countries[text]) : text \in RelayListings} \cup
          UNION {{Len(listed_cities[text][country]) :
                     country \in DOMAIN listed_cities[text]} :
                 text \in RelayListings})

\* The filter of draw_lists and of handle_search_mode: the item is
\* lowercased, the query is taken as typed.
matches(item, query) == contains(to_lowercase(item), query)

filter(list, query) == SelectSeq(list, LAMBDA item : matches(item, query))

\* draw_lists: the rows drawn in the Countries and Cities views.
draw_lists ==
    CASE view_mode = "Countries" -> filter(countries, search_string)
      [] view_mode = "Cities"    -> filter(cities, search_string)
      [] OTHER                   -> <<>>

(***************************************************************************)
(* The calls to the backend.  Each gives the result and the fields it      *)
(* leaves behind, also when it returns early.                              *)
(***************************************************************************)
set_countries(resp) ==
    IF ~resp.spawn THEN [res |-> "Io", countries |-> countries]
    ELSE IF ~resp.utf8 THEN [res |-> "Utf8", countries |-> countries]
    ELSE [res |-> "Ok", countries |-> listed_countries[relay_text]]

set_cities(resp) ==
    LET keep(res) == [res |-> res, cities |-> cities, country |-> loaded_country]
    IN  IF ~resp.spawn THEN keep("Io")
        ELSE IF country_index >= Len(countries) THEN keep("Panic")
        ELSE IF ~contains_char(countries[country_index + 1], "(") THEN keep("Panic")
        ELSE IF ~resp.utf8 THEN keep("Utf8")
        ELSE [res |-> "Ok",
              cities |-> listed_cities[relay_text][countries[country_index + 1]],
              country |-> countries[country_index + 1]]

\* connect, but a failed command's output lines are not stored.
connect_unrecorded_failure(located, resp) ==
    LET keep(res) == [res |-> res, connected |-> connected,
                      connection_output |-> connection_output,
                      out |-> <<>>, args |-> NoArgs]
        args == <<countries[country_index + 1], cities[city_index + 1]>>
    IN  IF country_index >= Len(countries) \/ city_index >= Len(cities)
        THEN keep("Panic")
        ELSE IF ~located \/ ~resp.spawn
        THEN [keep("Io") EXCEPT !.args = args]
        ELSE IF ~resp.utf8
        THEN [keep("Utf8") EXCEPT !.args = args, !.connected = resp.success]
        ELSE [res |-> IF resp.success THEN "Ok" ELSE "Command",
              connected |-> resp.success,
              connection_output |-> IF resp.success THEN lines(resp.stdout)
                                    ELSE connection_output,
              out |-> lines(resp.stdout), args |-> args]

connect(located, resp) ==
    LET keep(res) == [res |-> res, connected |-> connected,
                      connection_output |-> connection_output,
                      out |-> <<>>, args |-> NoArgs]
        args == <<countries[country_index + 1], cities[city_index + 1]>>
    IN  IF country_index >= Len(countries) \/ city_index >= Len(cities)
        THEN keep("Panic")
        ELSE IF ~located \/ ~resp.spawn
        THEN [keep("Io") EXCEPT !.args = args]
        ELSE IF ~resp.utf8
        THEN [keep("Utf8") EXCEPT !.args = args, !.connected = resp.success]
        ELSE [res |-> IF resp.success THEN "Ok" ELSE "Command",
              connected |-> resp.success,
              connection_output |-> lines(resp.stdout),
              out |-> lines(resp.stdout), args |-> args]

\* disconnect, but the output lines are added to the earlier ones.
disconnect_appends(resp) ==
    LET keep(res) == [res |-> res, connected |-> connected,
                      connection_output |-> connection_output, out |-> <<>>]
    IN  IF ~resp.spawn THEN keep("Io")
        ELSE IF ~resp.utf8
        THEN [keep("Utf8") EXCEPT !.connected = ~resp.success]
        ELSE [res |-> IF resp.success THEN "Ok" ELSE "Command",
              connected |-> ~resp.success,
              connection_output |-> connection_output \o lines(resp.stdout),
              out |-> lines(resp.stdout)]

disconnect(resp) ==
    LET keep(res) == [res |-> res, connected |-> connected,
                      connection_output |-> connection_output, out |-> <<>>]
    IN  IF ~resp.spawn THEN keep("Io")
        ELSE IF ~resp.utf8
        THEN [keep("Utf8") EXCEPT !.connected = ~resp.success]
        ELSE [res |-> IF resp.success THEN "Ok" ELSE "Command",
              connected |-> ~resp.success,
              connection_output |-> lines(resp.stdout),
              out |-> lines(resp.stdout)]

(***************************************************************************)
(* App::init, when it succeeds.                                            *)
(***************************************************************************)
Init ==
    /\ relay_text \in RelayListings
    /\ overflow_checks = "unset"
    /\ countries = listed_countries[relay_text]
    /\ cities = <<>>
    /\ connection_output = <<>>
    /\ connected \in BOOLEAN
    /\ search_string = <<>>
    /\ country_index = 0
    /\ city_index = 0
    /\ input_mode = "Normal"
    /\ view_mode = "Countries"
    /\ awaiting_second_g = FALSE
    /\ state = 0
    /\ exit = FALSE
    /\ run = "loop"
    /\ loaded_country = NoCountry
    /\ last = [key |-> "", view |-> "Countries", mode |-> "Normal",
               res |-> "Ok", out |-> <<>>, args |-> NoArgs]

\* App::run is at handle_events, waiting for the next event.
accepting == run = "loop" /\ ~exit

(***************************************************************************)
(* handle_normal_mode, one action per arm of its match.                    *)
(***************************************************************************)
\* Esc | Char('q'), but the query is cleared on the way out.
NormalQuit_clears_query(key) ==
    /\ accepting /\ input_mode = "Normal"
    /\ exit' = TRUE
    /\ last' = Handled(key, "Ok", <<>>, NoArgs)
    /\ search_string' = <<>>
    /\ UNCHANGED <<countries, cities, connection_output, connected,
                   view_mode, input_mode, state,
                   awaiting_second_g, country_index, city_index,
                   run, env, loaded_country>>

\* Esc | Char('q')
NormalQuit(key) ==
    /\ accepting /\ input_mode = "Normal"
    /\ exit' = TRUE
    /\ last' = Handled(key, "Ok", <<>>, NoArgs)
    /\ UNCHANGED <<countries, cities, connection_output, connected,
                   search_string, view_mode, input_mode, state,
                   awaiting_second_g, country_index, city_index,
                   run, env, loaded_country>>

\* Enter in the Countries view
NormalEnterCountries(resp) ==
    /\ accepting /\ input_mode = "Normal" /\ view_mode = "Countries"
    /\ LET r == set_cities(resp)
       IN  /\ search_string' = <<>>
           /\ state' = 0
           /\ cities' = r.cities
           /\ loaded_country' = r.country
           /\ city_index' = IF r.res = "Ok" THEN 0 ELSE city_index
           /\ view_mode' = IF r.res = "Ok" THEN "Cities" ELSE view_mode
           /\ run' = after(r.res)
           /\ last' = Handled("Enter", r.res, <<>>, NoArgs)
    /\ UNCHANGED <<countries, connection_output, connected, input_mode,
                   awaiting_second_g, country_index, exit, env>>

\* Enter in the Cities view
NormalEnterCities(resps) ==
    /\ accepting /\ input_mode = "Normal" /\ view_mode = "Cities"
    /\ LET r == connect(resps[1], resps[2])
       IN  /\ search_string' = <<>>
           /\ connected' = r.connected
           /\ connection_output' = r.connection_output
           /\ view_mode' = IF r.res = "Ok" THEN "Connection" ELSE view_mode
           /\ run' = after(r.res)
           /\ last' = Handled("Enter", r.res, r.out, r.args)
    /\ UNCHANGED <<countries, cities, input_mode, state, awaiting_second_g,
                   country_index, city_index, exit, env, loaded_country>>

\* Enter in the Connection view
NormalEnterConnection(resp) ==
    /\ accepting /\ input_mode = "Normal" /\ view_mode = "Connection"
    /\ LET r == set_countries(resp)
       IN  /\ search_string' = <<>>
           /\ country_index' = 0
           /\ city_index' = 0
           /\ countries' = r.countries
           /\ view_mode' = IF r.res = "Ok" THEN "Countries" ELSE view_mode
           /\ run' = after(r.res)
           /\ last' = Handled("Enter", r.res, <<>>, NoArgs)
    /\ UNCHANGED <<cities, connection_output, connected, input_mode, state,
                   awaiting_second_g, exit, env, loaded_country>>

\* Char('D')
NormalDisconnect(resp) ==
    /\ accepting /\ input_mode = "Normal"
    /\ LET r == disconnect(resp)
       IN  /\ connected' = r.connected
           /\ connection_output' = r.connection_output
           /\ run' = after(r.res)
           /\ last' = Handled("D", r.res, r.out, NoArgs)
    /\ UNCHANGED <<countries, cities, search_string, view_mode, input_mode,
                   state, awaiting_second_g, country_index, city_index, exit,
                   env, loaded_country>>

\* increment_country / increment_city: the index after the key, or a panic.
increment(index, len, checks) ==
    LET m == minus_one(len, checks)
    IN  IF m.panic THEN [m EXCEPT !.val = index]
        ELSE [m EXCEPT !.val = IF index < m.val THEN index + 1 ELSE index]

\* decrement_country / decrement_city
decrement(index) == IF index > 0 THEN index - 1 ELSE index

\* The bound on strayed indices: the values Down and Up may give an index.
in_model(index) ==
    \/ index < LongestList + MaxStray
    \/ index >= UsizeMax - MaxStray

\* What an arithmetic step n of a handler leaves: the selected row and how
\* run goes on, and which build the overflow has shown.
Stepped(key, n, checks) ==
    /\ state' = IF n.panic THEN state ELSE n.val
    /\ run' = IF n.panic THEN "panic" ELSE run
    /\ overflow_checks' = IF n.overflow THEN checks ELSE overflow_checks
    /\ last' = Handled(key, IF n.panic THEN "Panic" ELSE "Ok", <<>>, NoArgs)

\* Down | Char('j'): increment_index.  The key is recorded as "j".
NormalDown(checks) ==
    /\ accepting /\ input_mode = "Normal"
    /\ checks \in builds
    /\ CASE view_mode = "Countries" ->
              LET n == increment(country_index, Len(countries), checks)
              IN  /\ in_model(n.val)
                  /\ country_index' = n.val
                  /\ Stepped("j", n, checks)
                  /\ UNCHANGED city_index
         [] view_mode = "Cities" ->
              LET n == increment(city_index, Len(cities), checks)
              IN  /\ in_model(n.val)
                  /\ city_index' = n.val
                  /\ Stepped("j", n, checks)
                  /\ UNCHANGED country_index
         [] OTHER ->
              /\ last' = Handled("j", "Ok", <<>>, NoArgs)
              /\ UNCHANGED <<country_index, city_index, state, run,
                             overflow_checks>>
    /\ UNCHANGED <<countries, cities, connection_output, connected,
                   search_string, view_mode, input_mode, awaiting_second_g,
                   exit, relay_text, loaded_country>>

\* Up | Char('k'): decrement_index.  The key is recorded as "k".
NormalUp ==
    /\ accepting /\ input_mode = "Normal"
    /\ view_mode = "Countries" => in_model(decrement(country_index))
    /\ view_mode = "Cities" => in_model(decrement(city_index))
    /\ CASE view_mode = "Countries" ->
              /\ country_index' = decrement(country_index)
              /\ state' = country_index'
              /\ UNCHANGED city_index
         [] view_mode = "Cities" ->
              /\ city_index' = decrement(city_index)
              /\ state' = city_index'
              /\ UNCHANGED country_index
         [] OTHER -> UNCHANGED <<country_index, city_index, state>>
    /\ last' = Handled("k", "Ok", <<>>, NoArgs)
    /\ UNCHANGED <<countries, cities, connection_output, connected,
                   search_string, view_mode, input_mode, awaiting_second_g,
                   exit, run, env, loaded_country>>

\* Char('G')
NormalLast(checks) ==
    /\ accepting /\ input_mode = "Normal"
    /\ checks \in builds
    /\ CASE view_mode = "Countries" ->
              LET m == minus_one(Len(countries), checks)
                  n == IF m.panic THEN [m EXCEPT !.val = country_index] ELSE m
              IN  /\ country_index' = n.val
                  /\ Stepped("G", n, checks)
                  /\ UNCHANGED city_index
         [] view_mode = "Cities" ->
              LET m == minus_one(Len(cities), checks)
                  n == IF m.panic THEN [m EXCEPT !.val = city_index] ELSE m
              IN  /\ city_index' = n.val
                  /\ Stepped("G", n, checks)
                  /\ UNCHANGED country_index
         [] OTHER ->
              /\ last' = Handled("G", "Ok", <<>>, NoArgs)
              /\ UNCHANGED <<country_index, city_index, state, run,
                             overflow_checks>>
    /\ UNCHANGED <<countries, cities, connection_output, connected,
                   search_string, view_mode, input_mode, awaiting_second_g,
                   exit, relay_text, loaded_country>>

\* Char('g')
NormalFirst ==
    /\ accepting /\ input_mode = "Normal"
    /\ IF awaiting_second_g
       THEN /\ CASE view_mode = "Countries" ->
                      /\ country_index' = 0
                      /\ state' = 0
                      /\ UNCHANGED city_index
                 [] view_mode = "Cities" ->
                      /\ city_index' = 0
                      /\ state' = 0
                      /\ UNCHANGED country_index
                 [] OTHER -> UNCHANGED <<country_index, city_index, state>>
            /\ awaiting_second_g' = FALSE
       ELSE /\ awaiting_second_g' = TRUE
            /\ UNCHANGED <<country_index, city_index, state>>
    /\ last' = Handled("g", "Ok", <<>>, NoArgs)
    /\ UNCHANGED <<countries, cities, connection_output, connected,
                   search_string, view_mode, input_mode, exit, run, env,
                   loaded_country>>

\* Char('/') | Char('i').  The key is recorded as "/".
NormalSearch ==
    /\ accepting /\ input_mode = "Normal"
    /\ input_mode' = "Search"
    /\ last' = Handled("/", "Ok", <<>>, NoArgs)
    /\ UNCHANGED <<countries, cities, connection_output, connected,
                   search_string, view_mode, state, awaiting_second_g,
                   country_index, city_index, exit, run, env, loaded_country>>

\* Char('h'), but leaving the Cities view keeps the city index.
NormalBack_keeps_city(resp) ==
    /\ accepting /\ input_mode = "Normal"
    /\ CASE view_mode = "Cities" ->
              LET r == set_countries(resp)
              IN  /\ countries' = r.countries
                  /\ city_index' = city_index
                  /\ view_mode' = IF r.res = "Ok" THEN "Countries" ELSE view_mode
                  /\ run' = after(r.res)
                  /\ last' = Handled("h", r.res, <<>>, NoArgs)
                  /\ UNCHANGED <<cities, loaded_country>>
         [] view_mode = "Connection" ->
              LET r == set_cities(resp)
              IN  /\ cities' = r.cities
                  /\ loaded_country' = r.country
                  /\ city_index' = IF r.res = "Ok" THEN 0 ELSE city_index
                  /\ view_mode' = IF r.res = "Ok" THEN "Cities" ELSE view_mode
                  /\ run' = after(r.res)
                  /\ last' = Handled("h", r.res, <<>>, NoArgs)
                  /\ UNCHANGED countries
         [] OTHER ->
              /\ last' = Handled("h", "Ok", <<>>, NoArgs)
              /\ UNCHANGED <<countries, cities, loaded_country, city_index,
                             view_mode, run>>
    /\ UNCHANGED <<connection_output, connected, search_string, input_mode,
                   state, awaiting_second_g, country_index, exit, env>>

\* Char('h')
NormalBack(resp) ==
    /\ accepting /\ input_mode = "Normal"
    /\ CASE view_mode = "Cities" ->
              LET r == set_countries(resp)
              IN  /\ countries' = r.countries
                  /\ city_index' = IF r.res = "Ok" THEN 0 ELSE city_index
                  /\ view_mode' = IF r.res = "Ok" THEN "Countries" ELSE view_mode
                  /\ run' = after(r.res)
                  /\ last' = Handled("h", r.res, <<>>, NoArgs)
                  /\ UNCHANGED <<cities, loaded_country>>
         [] view_mode = "Connection" ->
              LET r == set_cities(resp)
              IN  /\ cities' = r.cities
                  /\ loaded_country' = r.country
                  /\ city_index' = IF r.res = "Ok" THEN 0 ELSE city_index
                  /\ view_mode' = IF r.res = "Ok" THEN "Cities" ELSE view_mode
                  /\ run' = after(r.res)
                  /\ last' = Handled("h", r.res, <<>>, NoArgs)
                  /\ UNCHANGED countries
         [] OTHER ->
              /\ last' = Handled("h", "Ok", <<>>, NoArgs)
              /\ UNCHANGED <<countries, cities, loaded_country, city_index,
                             view_mode, run>>
    /\ UNCHANGED <<connection_output, connected, search_string, input_mode,
                   state, awaiting_second_g, country_index, exit, env>>

\* Any other key, here Tab: the `_ => {}` arm.
NormalOther ==
    /\ accepting /\ input_mode = "Normal"
    /\ last' = Handled("Tab", "Ok", <<>>, NoArgs)
    /\ UNCHANGED <<fields, run, env, loaded_country>>

(***************************************************************************)
(* handle_search_mode, one action per arm of its match.                    *)
(***************************************************************************)
\* Enter, but from the Cities view it shows the Connection view.
SearchEnter_to_connection(resp) ==
    /\ accepting /\ input_mode = "Search"
    /\ input_mode' = "Normal"
    /\ CASE view_mode = "Countries" ->
              LET r == set_cities(resp)
              IN  /\ cities' = r.cities
                  /\ loaded_country' = r.country
                  /\ search_string' = IF r.res = "Ok" THEN <<>> ELSE search_string
                  /\ view_mode' = IF r.res = "Ok" THEN "Cities" ELSE view_mode
                  /\ run' = after(r.res)
                  /\ last' = Handled("Enter", r.res, <<>>, NoArgs)
                  /\ UNCHANGED country_index
         [] view_mode = "Cities" ->
              /\ view_mode' = "Connection"
              /\ last' = Handled("Enter", "Ok", <<>>, NoArgs)
              /\ UNCHANGED <<cities, loaded_country, search_string, run,
                             country_index>>
         [] OTHER ->
              /\ country_index' = 0
              /\ view_mode' = "Countries"
              /\ last' = Handled("Enter", "Ok", <<>>, NoArgs)
              /\ UNCHANGED <<cities, loaded_country, search_string, run>>
    /\ UNCHANGED <<countries, connection_output, connected, state,
                   awaiting_second_g, city_index, exit, env>>

\* Enter
SearchEnter(resp) ==
    /\ accepting /\ input_mode = "Search"
    /\ input_mode' = "Normal"
    /\ CASE view_mode = "Countries" ->
              LET r == set_cities(resp)
              IN  /\ cities' = r.cities
                  /\ loaded_country' = r.country
                  /\ search_string' = IF r.res = "Ok" THEN <<>> ELSE search_string
                  /\ view_mode' = IF r.res = "Ok" THEN "Cities" ELSE view_mode
                  /\ run' = after(r.res)
                  /\ last' = Handled("Enter", r.res, <<>>, NoArgs)
                  /\ UNCHANGED country_index
         [] view_mode = "Cities" ->
              /\ last' = Handled("Enter", "Ok", <<>>, NoArgs)
              /\ UNCHANGED <<cities, loaded_country, search_string, view_mode,
                             run, country_index>>
         [] OTHER ->
              /\ country_index' = 0
              /\ view_mode' = "Countries"
              /\ last' = Handled("Enter", "Ok", <<>>, NoArgs)
              /\ UNCHANGED <<cities, loaded_country, search_string, run>>
    /\ UNCHANGED <<countries, connection_output, connected, state,
                   awaiting_second_g, city_index, exit, env>>

\* Esc
SearchEsc ==
    /\ accepting /\ input_mode = "Search"
    /\ input_mode' = "Normal"
    /\ last' = Handled("Esc", "Ok", <<>>, NoArgs)
    /\ UNCHANGED <<countries, cities, connection_output, connected,
                   search_string, view_mode, state, awaiting_second_g,
                   country_index, city_index, exit, run, env, loaded_country>>

\* Char(c)
SearchChar(c) ==
    /\ accepting /\ input_mode = "Search"
    /\ c \in TypedChars
    /\ Len(search_string) < MaxQuery
    /\ search_string' = Append(search_string, c)
    /\ state' = 0
    /\ CASE view_mode = "Countries" ->
              /\ countries' = filter(countries, search_string')
              /\ UNCHANGED cities
         [] view_mode = "Cities" ->
              /\ cities' = filter(cities, search_string')
              /\ UNCHANGED countries
         [] OTHER -> UNCHANGED <<countries, cities>>
    /\ country_index' = 0
    /\ last' = Handled(c, "Ok", <<>>, NoArgs)
    /\ UNCHANGED <<connection_output, connected, view_mode, input_mode,
                   awaiting_second_g, city_index, exit, run, env,
                   loaded_country>>

\* String::pop
pop(s) == IF s = <<>> THEN s ELSE SubSeq(s, 1, Len(s) - 1)

\* Backspace
SearchBackspace(resp) ==
    /\ accepting /\ input_mode = "Search"
    /\ LET r == set_countries(resp)
       IN  /\ search_string' = pop(search_string)
           /\ countries' = r.countries
           /\ country_index' = IF r.res = "Ok" THEN 0 ELSE country_index
           /\ run' = after(r.res)
           /\ last' = Handled("Backspace", r.res, <<>>, NoArgs)
    /\ UNCHANGED <<cities, connection_output, connected, view_mode,
                   input_mode, state, awaiting_second_g, city_index, exit,
                   env, loaded_country>>

\* Any other key, here Tab: the `_ => {}` arm.
SearchOther ==
    /\ accepting /\ input_mode = "Search"
    /\ last' = Handled("Tab", "Ok", <<>>, NoArgs)
    /\ UNCHANGED <<fields, run, env, loaded_country>>

(***************************************************************************)
(* App::run and handle_events.                                             *)
(***************************************************************************)
\* handle_events on an event that is no key press: nothing is handled.
IgnoredEvent ==
    /\ accepting
    /\ UNCHANGED vars

\* `while !self.exit` ends the loop and run returns Ok(()).
RunReturns ==
    /\ run = "loop" /\ exit
    /\ run' = "ok"
    /\ UNCHANGED <<fields, env, loaded_country, last>>

Next ==
    \/ \E key \in {"Esc", "q"} : NormalQuit(key)
    \/ \E resp \in ListingResponses : NormalEnterCountries(resp)
    \/ \E resps \in ConnectResponses : NormalEnterCities(resps)
    \/ \E resp \in ListingResponses : NormalEnterConnection(resp)
    \/ \E resp \in CommandResponses : NormalDisconnect(resp)
    \/ \E checks \in Builds : NormalDown(checks)
    \/ NormalUp
    \/ \E checks \in Builds : NormalLast(checks)
    \/ NormalFirst
    \/ NormalSearch
    \/ \E resp \in ListingResponses : NormalBack(resp)
    \/ NormalOther
    \/ \E resp \in ListingResponses : SearchEnter(resp)
    \/ SearchEsc
    \/ \E c \in TypedChars : SearchChar(c)
    \/ \E resp \in ListingResponses : SearchBackspace(resp)
    \/ SearchOther
    \/ IgnoredEvent
    \/ RunReturns

Spec == Init /\ [][Next]_vars

(***************************************************************************)
(* The vocabulary of the properties.                                       *)
(***************************************************************************)
\* The tier a view shows: its list and its selection index.
ActiveList == IF view_mode = "Countries" THEN countries ELSE cities
ActiveIndex == IF view_mode = "Countries" THEN country_index ELSE city_index
InListView == view_mode \in {"Countries", "Cities"}

\* The step handles key `key`, pressed in Normal mode in a list view.
NormalKeyInList(key) ==
    /\ accepting /\ input_mode = "Normal" /\ InListView
    /\ last'.key = key /\ last'.mode = "Normal"

\* The same for a key pressed in Search mode.
SearchKeyInList(key) ==
    /\ accepting /\ input_mode = "Search" /\ InListView
    /\ last'.key = key /\ last'.mode = "Search"

\* A case-insensitive substring test, and the list it keeps.
CaseInsensitiveContains(item, query) ==
    contains(to_lowercase(item), to_lowercase(query))
CaseInsensitiveFilter(list, query) ==
    SelectSeq(list, LAMBDA item : CaseInsensitiveContains(item, query))

\* The unfiltered backend list of each tier: the countries of the listing,
\* and the cities of the country the city list was loaded for.
SourceCountries == listed_countries[relay_text]
SourceCities ==
    IF loaded_country = NoCountry THEN <<>>
    ELSE listed_cities[relay_text][loaded_country]
ActiveSource == IF view_mode = "Countries" THEN SourceCountries ELSE SourceCities

(***************************************************************************)
(* C1: in every reachable state each tier's selection index is below the   *)
(* length of its list when the list is non-empty, and 0 when it is empty.  *)
(***************************************************************************)
C1_IndexWithinList ==
    /\ countries # <<>> => country_index < Len(countries)
    /\ countries = <<>> => country_index = 0
    /\ cities # <<>> => city_index < Len(cities)
    /\ cities = <<>> => city_index = 0

(***************************************************************************)
(* C2: a move down or up in Normal mode keeps the active index within the  *)
(* list when the list has n >= 1 items (a move at a boundary leaves it     *)
(* unchanged); on an empty list it does not crash and leaves the index 0.  *)
(***************************************************************************)
C2_MovesStayWithinList ==
    [][\A key \in {"j", "k"} :
          NormalKeyInList(key) =>
              LET n == Len(ActiveList)
                  index == ActiveIndex
                  moved == IF view_mode = "Countries" THEN country_index'
                           ELSE city_index'
              IN  /\ n >= 1 /\ index < n =>
                        /\ run' = "loop"
                        /\ moved < n
                        /\ moved = IF key = "j"
                                   THEN (IF index = n - 1 THEN index ELSE index + 1)
                                   ELSE (IF index = 0 THEN index ELSE index - 1)
                  /\ n = 0 /\ index = 0 => run' = "loop" /\ moved = 0]_vars

(***************************************************************************)
(* C3: G in Normal mode in a list view sets the active index to n - 1 when *)
(* the active list has n > 0 items, and changes nothing when n = 0.        *)
(***************************************************************************)
C3_JumpToLast ==
    [][NormalKeyInList("G") =>
          LET n == Len(ActiveList)
              moved == IF view_mode = "Countries" THEN country_index'
                       ELSE city_index'
          IN  /\ n > 0 => moved = n - 1 /\ run' = "loop"
              /\ n = 0 => UNCHANGED <<fields, run>>]_vars

(***************************************************************************)
(* C4: a g press jumps to the first row only when the key handled just     *)
(* before it was a g that set the pending flag; the first g changes no     *)
(* index, the completing g clears the flag, and any other key after which  *)
(* the navigator goes on clears it.                                        *)
(***************************************************************************)
C4_GestureNeedsConsecutivePresses ==
    [][/\ NormalKeyInList("g") =>
             /\ ~awaiting_second_g =>
                   UNCHANGED <<country_index, city_index>> /\ awaiting_second_g'
             /\ awaiting_second_g =>
                   /\ ~awaiting_second_g'
                   /\ last.key = "g" /\ last.mode = "Normal"
       /\ accepting /\ run' = "loop" /\ ~exit' /\ last'.key # "g" =>
             ~awaiting_second_g']_vars

(***************************************************************************)
(* C5: while the navigator runs in a list view, the rows it draws are the  *)
(* backend list of the active tier filtered, in order, by a                *)
(* case-insensitive substring test against the query; with an empty query  *)
(* they are the whole backend list.                                        *)
(***************************************************************************)
C5_DrawnRowsAreFilteredSource ==
    run = "loop" /\ InListView =>
        draw_lists = CaseInsensitiveFilter(ActiveSource, search_string)

(***************************************************************************)
(* C6: after a character is typed in Search mode the active list is the    *)
(* backend list of the tier filtered by the whole query typed so far.      *)
(***************************************************************************)
C6_TypingFiltersTheSource ==
    [][\A c \in TypedChars :
          SearchKeyInList(c) =>
              ActiveList' = CaseInsensitiveFilter(ActiveSource, search_string')]_vars

(***************************************************************************)
(* C7: a Backspace after typing in Search mode (the backend listing        *)
(* succeeding) removes the last query character, shows the backend list of *)
(* the active tier filtered by the shortened query, and sets the active    *)
(* index to 0.  The rows are those drawn, the reading the code meets most. *)
(***************************************************************************)
C7_BackspaceRestoresRows ==
    [][SearchKeyInList("Backspace") /\ search_string # <<>> /\ last'.res = "Ok" =>
          /\ search_string' = pop(search_string)
          /\ draw_lists' = CaseInsensitiveFilter(ActiveSource, search_string')
          /\ ActiveIndex' = 0]_vars

(***************************************************************************)
(* C8: a character typed in Search mode in a list view is appended to the  *)
(* query, leaves the active list equal to the backend items that contain   *)
(* the query case-insensitively, in order, and sets the active index to 0. *)
(***************************************************************************)
C8_TypedCharacterFiltersAndResets ==
    [][\A c \in TypedChars :
          SearchKeyInList(c) =>
              /\ search_string' = Append(search_string, c)
              /\ ActiveList' = CaseInsensitiveFilter(ActiveSource, search_string')
              /\ ActiveIndex' = 0]_vars

(***************************************************************************)
(* C9: h in Normal mode in the Cities view, the backend listing            *)
(* succeeding, sets the view to Countries and the city index to 0 and      *)
(* leaves the country index unchanged.                                     *)
(***************************************************************************)
C9_BackFromCities ==
    [][NormalKeyInList("h") /\ view_mode = "Cities" /\ last'.res = "Ok" =>
          /\ view_mode' = "Countries"
          /\ city_index' = 0
          /\ country_index' = country_index]_vars

\* h has taken the navigator from a city other than the first back to the
\* Countries view, with a country other than the first selected.
C9_Witness ==
    /\ last.key = "h" /\ last.mode = "Normal" /\ last.view = "Cities"
    /\ last.res = "Ok"
    /\ view_mode = "Countries" /\ country_index > 0 /\ city_index = 0
    /\ state > 0

(***************************************************************************)
(* C10: an Enter in Normal mode in the Cities view whose connect command   *)
(* the backend reports as failed leaves the view Cities, leaves both lists *)
(* and both indices unchanged, and records exactly the output lines of     *)
(* that command.                                                           *)
(***************************************************************************)
C10_FailedConnectKeepsCities ==
    [][NormalKeyInList("Enter") /\ view_mode = "Cities" /\ last'.res = "Command" =>
          /\ view_mode' = "Cities"
          /\ UNCHANGED <<countries, cities, country_index, city_index>>
          /\ connection_output' = last'.out
          /\ last'.out = lines(stdout_of(FALSE))]_vars

\* A connect command has failed after an earlier command left other output.
C10_Witness ==
    /\ last.key = "Enter" /\ last.mode = "Normal" /\ last.view = "Cities"
    /\ last.res = "Command"
    /\ view_mode = "Cities" /\ city_index > 0
    /\ connection_output = <<OutError>>
    /\ ~connected

\* The results of a handler whose backend call failed: the command could
\* not be run, its output was no text, or it reported a failure status.
BackendFailures == {"Io", "Utf8", "Command"}

(***************************************************************************)
(* C11: an Enter in Normal mode in the Countries view whose city listing   *)
(* the backend fails leaves the view Countries and leaves the country      *)
(* list, the city list, both indices, the highlighted row and the query    *)
(* as they were before the key.                                            *)
(***************************************************************************)
C11_FailedListingKeepsState ==
    [][NormalKeyInList("Enter") /\ view_mode = "Countries"
          /\ last'.res \in BackendFailures =>
              /\ view_mode' = "Countries"
              /\ UNCHANGED <<countries, cities, country_index, city_index,
                             state, search_string>>]_vars

(***************************************************************************)
(* C12: a key whose backend call fails, in Normal or Search mode, does not *)
(* end the event loop: after it the navigator still runs and accepts the   *)
(* next key.                                                               *)
(***************************************************************************)
C12_BackendFailureKeepsLoop ==
    [][accepting /\ last'.res \in BackendFailures =>
          run' = "loop" /\ ~exit']_vars

(***************************************************************************)
(* C13: no sequence of keys reaches an out-of-range list access or an      *)
(* index underflow: the navigator never panics and no `len - 1` is ever    *)
(* computed on an empty list.                                              *)
(***************************************************************************)
C13_NoOutOfRangeNoUnderflow ==
    run # "panic" /\ overflow_checks = "unset"

(***************************************************************************)
(* The parsing of relay listings of any line shape: App::init parses the   *)
(* countries of a listing, Down selects one, Enter loads its cities.       *)
(***************************************************************************)
\* Most lines of a listing.
MaxLines == 3

\* The shapes of a line: countries (one's text holding the other's),
\* a country indented by a space, cities, a relay below a city, a city
\* whose bracket is not closed, indented and plain text without brackets.
LineShapes ==
    { <<"S"," ","(","s",")">>,
      <<"x","S"," ","(","s",")">>,
      <<" ","G"," ","(","g",")">>,
      <<Tab,"M"," ","(","m",")">>,
      <<Tab,Tab,"r"," ","(","1",")">>,
      <<Tab,"H"," ","(","h">>,
      <<Tab,"n","o","t","e">>,
      <<"h","d","r">> }

RECURSIVE Texts(_)
\* The texts of n lines.
Texts(n) ==
    IF n = 0 THEN {<<>>}
    ELSE {Line(l) \o t : l \in LineShapes, t \in Texts(n - 1)}

ParseListings == UNION {Texts(n) : n \in 0..MaxLines}

\* App::init on a listing of ParseListings.
ParseInit ==
    /\ relay_text \in ParseListings
    /\ overflow_checks = "unset"
    /\ countries = country_lines(relay_text)
    /\ cities = <<>>
    /\ connection_output = <<>>
    /\ connected \in BOOLEAN
    /\ search_string = <<>>
    /\ country_index = 0
    /\ city_index = 0
    /\ input_mode = "Normal"
    /\ view_mode = "Countries"
    /\ awaiting_second_g = FALSE
    /\ state = 0
    /\ exit = FALSE
    /\ run = "loop"
    /\ loaded_country = NoCountry
    /\ last = [key |-> "", view |-> "Countries", mode |-> "Normal",
               res |-> "Ok", out |-> <<>>, args |-> NoArgs]

\* Down in the Countries view, below the last country: increment_country.
ParseDown ==
    /\ accepting /\ input_mode = "Normal" /\ view_mode = "Countries"
    /\ countries # <<>> /\ country_index < Len(countries) - 1
    /\ country_index' = country_index + 1
    /\ state' = country_index'
    /\ last' = Handled("j", "Ok", <<>>, NoArgs)
    /\ UNCHANGED <<countries, cities, connection_output, connected,
                   search_string, view_mode, input_mode, awaiting_second_g,
                   city_index, exit, run, env, loaded_country>>

\* Enter in the Countries view with a country selected and the listing
\* printed as text: set_cities parses the cities out of it.
ParseEnter ==
    /\ accepting /\ input_mode = "Normal" /\ view_mode = "Countries"
    /\ country_index < Len(countries)
    /\ search_string' = <<>>
    /\ state' = 0
    /\ cities' = city_lines(relay_text, countries[country_index + 1])
    /\ loaded_country' = countries[country_index + 1]
    /\ city_index' = 0
    /\ view_mode' = "Cities"
    /\ last' = Handled("Enter", "Ok", <<>>, NoArgs)
    /\ UNCHANGED <<countries, connection_output, connected, input_mode,
                   awaiting_second_g, country_index, exit, run, env>>

ParseNext == ParseDown \/ ParseEnter

ParseSpec == ParseInit /\ [][ParseNext]_vars

\* The lines of a listing that are country entries, by position.
CountryPositions(text) ==
    {i \in 1..Len(lines(text)) :
        contains_char(lines(text)[i], "(") /\ ~starts_with(lines(text)[i], Tab)}

\* The position of the k-th country entry, k from 0.
CountryPosition(text, k) ==
    CHOOSE p \in CountryPositions(text) :
        Cardinality({q \in CountryPositions(text) : q < p}) = k

\* The country entries of a listing, in order, without the surrounding
\* whitespace.
ExpectedCountries(text) ==
    [k \in 1..Cardinality(CountryPositions(text)) |->
        trim(lines(text)[CountryPosition(text, k - 1)])]

\* The city entries of the k-th country: the tab-indented lines with both
\* brackets between its line and the next line that is not indented.
ExpectedCities(text, k) ==
    LET L == lines(text)
        p == CountryPosition(text, k)
        plain == {j \in (p + 1)..Len(L) : ~starts_with(L[j], Tab)}
        stop == IF plain = {} THEN Len(L) + 1 ELSE MinOf(plain)
        city(line) == contains_char(line, "(") /\ contains_char(line, ")")
    IN  MapSeq(trim, SelectSeq(SubSeq(L, p + 1, stop - 1), city))

(***************************************************************************)
(* C14: for any listing text the country list is the lines that contain    *)
(* "(" and do not start with a tab, in order, and the city list loaded for *)
(* the selected country is the tab-indented lines with both "(" and ")"    *)
(* that follow that country's line up to the next line not indented, in    *)
(* order; every other line is skipped.                                     *)
(***************************************************************************)
C14_ListingParse ==
    /\ countries = ExpectedCountries(relay_text)
    /\ view_mode = "Cities" => cities = ExpectedCities(relay_text, country_index)

\* The step handles key `key`, pressed in input mode `mode` in any view.
KeyIn(mode, key) ==
    /\ accepting /\ input_mode = mode
    /\ last'.key = key /\ last'.mode = mode

(***************************************************************************)
(* C15: in Normal mode, in any view, q and Esc set the exit request and    *)
(* leave the view, both lists, both indices and the query as they are;     *)
(* once the exit request is set no key is processed any more and the loop  *)
(* can only return; in Search mode Esc only goes back to Normal mode and q *)
(* is appended to the query, and neither sets the exit request.            *)
(***************************************************************************)
C15_QuitOnlyInNormalMode ==
    [][/\ KeyIn("Normal", "q") \/ KeyIn("Normal", "Esc") =>
              /\ exit'
              /\ UNCHANGED <<view_mode, countries, cities, country_index,
                             city_index, search_string>>
       /\ exit => UNCHANGED <<fields, last>> /\ run = "loop" /\ run' = "ok"
       /\ KeyIn("Search", "Esc") =>
              /\ ~exit' /\ input_mode' = "Normal"
              /\ UNCHANGED <<view_mode, countries, cities, country_index,
                             city_index, search_string>>
       /\ KeyIn("Search", "q") =>
              ~exit' /\ search_string' = Append(search_string, "q")]_vars

\* The navigator has returned after a quit key pressed in the Cities view
\* with a query left that holds a q typed in Search mode.
C15_Witness ==
    /\ run = "ok" /\ exit
    /\ last.key \in {"q", "Esc"} /\ last.mode = "Normal" /\ last.view = "Cities"
    /\ view_mode = "Cities"
    /\ contains_char(search_string, "q")

(***************************************************************************)
(* C16: the query is empty right after every change of view and right      *)
(* after every Enter pressed in Search mode (the backend listing           *)
(* succeeding), also in the Cities view where the view stays.              *)
(***************************************************************************)
C16_QueryClearedOnTransition ==
    [][(view_mode' # view_mode \/ (KeyIn("Search", "Enter") /\ last'.res = "Ok"))
          => search_string' = <<>>]_vars

(***************************************************************************)
(* C17: Enter in Search mode always sets the input mode to Normal and      *)
(* takes the view from Countries to Cities, with the city list the         *)
(* backend's listing for the selected country and the query cleared; from  *)
(* Cities to Cities without running connect; and from Connection to        *)
(* Countries with the country index 0.                                     *)
(***************************************************************************)
C17_SearchEnterSteps ==
    [][KeyIn("Search", "Enter") =>
          /\ input_mode' = "Normal"
          /\ view_mode = "Countries" =>
                /\ view_mode' = "Cities"
                /\ country_index < Len(countries)
                /\ cities' = listed_cities[relay_text][countries[country_index + 1]]
                /\ search_string' = <<>>
          /\ view_mode = "Cities" =>
                /\ view_mode' = "Cities"
                /\ last'.args = NoArgs /\ last'.out = <<>>
                /\ UNCHANGED <<connected, connection_output>>
          /\ view_mode = "Connection" =>
                view_mode' = "Countries" /\ country_index' = 0]_vars

(***************************************************************************)
(* C18: h in Normal mode in the Connection view (the backend listing       *)
(* succeeding) sets the view to Cities, the city index to 0 and the city   *)
(* list to the backend's listing for the country the Cities view was       *)
(* entered with before connecting, whatever was pressed in between.        *)
(***************************************************************************)
C18_BackFromConnection ==
    [][KeyIn("Normal", "h") /\ view_mode = "Connection" /\ last'.res = "Ok" =>
          /\ view_mode' = "Cities"
          /\ city_index' = 0
          /\ cities' = listed_cities[relay_text][loaded_country]]_vars

(***************************************************************************)
(* C19: in every reachable state with the view Countries or Cities and the *)
(* navigator running, the row the list widget has selected is the          *)
(* selection index of the active tier.                                     *)
(***************************************************************************)
C19_HighlightFollowsIndex ==
    run = "loop" /\ InListView => state = ActiveIndex

Elements(list) == {list[i] : i \in 1..Len(list)}

(***************************************************************************)
(* C21: whenever Enter in Normal mode in the Cities view runs the connect  *)
(* command, the country it passes is the country whose city listing is     *)
(* loaded and the city it passes is one of that country's cities in the    *)
(* backend listing.                                                        *)
(***************************************************************************)
C21_ConnectArgumentsAgree ==
    [][KeyIn("Normal", "Enter") /\ view_mode = "Cities" /\ last'.args # NoArgs =>
          /\ last'.args[1] = loaded_country
          /\ last'.args[2] \in Elements(listed_cities[relay_text][loaded_country])]_vars

\* The edges along which the view changes.
ViewEdges ==
    { <<"Countries", "Cities">>, <<"Cities", "Connection">>,
      <<"Cities", "Countries">>, <<"Connection", "Cities">>,
      <<"Connection", "Countries">> }

(***************************************************************************)
(* C22: the view changes only along Countries->Cities, Cities->Connection, *)
(* Cities->Countries, Connection->Cities and Connection->Countries; the    *)
(* Connection view is entered only by an Enter in Normal mode in the       *)
(* Cities view whose connect command succeeded; and no key pressed in      *)
(* Search mode runs connect or disconnect.                                 *)
(***************************************************************************)
C22_ViewEdges ==
    [][/\ view_mode' # view_mode => <<view_mode, view_mode'>> \in ViewEdges
       /\ view_mode' # view_mode /\ view_mode' = "Connection" =>
              /\ KeyIn("Normal", "Enter") /\ view_mode = "Cities"
              /\ last'.res = "Ok" /\ connected'
              /\ connection_output' = lines(stdout_of(TRUE))
       /\ input_mode = "Search" =>
              /\ UNCHANGED <<connected, connection_output>>
              /\ last'.out = <<>> /\ last'.args = NoArgs]_vars

\* After a connect that succeeded, an Enter in Search mode has taken the
\* view from Connection to Countries.
C22_Witness ==
    /\ last.key = "Enter" /\ last.mode = "Search" /\ last.view = "Connection"
    /\ view_mode = "Countries" /\ input_mode = "Normal"
    /\ connected /\ connection_output = lines(stdout_of(TRUE))

=============================================================================
